---- MODULE Spec2Model ----
(***************************************************************************)
(* Sidecar supervision of the desktop shell (desktop/src-tauri/src/lib.rs). *)
(* The startup task resolves the ports, probes the primary port, spawns the *)
(* sidecar when nothing answers, polls it for readiness, and either builds  *)
(* the window and hands the child to ServerState or shows the timeout       *)
(* dialog and exits.  The output pump, the three commands and the Exit      *)
(* handler run concurrently with it.                                        *)
(*                                                                          *)
(* Time is in milliseconds.  Option<u32> values are integers, None == -1.   *)
(* A raw environment value is Absent, Garbage (set, but not a number) or    *)
(* the number it spells.                                                    *)
(***************************************************************************)
EXTENDS Integers, Sequences, FiniteSets, TLC

(* ----------------------------- constants ------------------------------- *)

MAX_LOG_ENTRIES == 200
DEFAULT_SKILLS_PORT == 4097
\* Duration::from_secs(7), in ms
TIMEOUT_MS == 7000
\* Duration::from_millis(10), the sleep of the poll loop and of the grace delay
POLL_MS == 10
\* `port as u16` keeps the low 16 bits
U16 == 65536

\* current.ancestors().take(6)
ANCESTOR_LIMIT == 6

None == -1
Absent == -1
Garbage == -2

(* ------------------------------- bounds -------------------------------- *)

\* a sleep of the fine-grained schedule oversleeps by 0..MaxJitter ms
MaxJitter == 1
\* a probe takes 0..MaxProbeMs ms
MaxProbeMs == 1
\* the coarse schedule oversleeps by CoarseStep or 2*CoarseStep ms
CoarseStep == 1745
\* lines the child writes in the lifecycle specification
MaxLines == 2
\* lines the child writes in the log specification
MaxLogLines == 202

\* directories from the working directory up to the root
MaxAncestors == 7

FineJitter == 0..MaxJitter
CoarseJitter == {CoarseStep, 2 * CoarseStep}
\* one sleep outlasts the whole readiness timeout
LongJitter == {TIMEOUT_MS}
ProbeMs == 0..MaxProbeMs

\* ports the operating system can hand out or that a service can listen on
LocalPorts == {4097, 5000, 5001}
\* 69633 = 4097 + 65536: a u32 that is no u16
RawPorts == {Absent, Garbage, 4097, 5000, 69633}

VARIABLES
    env,                \* the environment and compile-time values of this launch
    extListening,       \* ports on which some other process accepts connections
    childUp,            \* the sidecar accepts connections on its --port
    pc,                 \* position of the startup task
    port,               \* Option<u32>
    initialProbe,       \* outcome of the probe of line 318: "none", "up", "down"
    connectedTo,        \* the u16 port the last successful probe of the primary port reached
    should_spawn_sidecar,
    skills_port,        \* u32
    child,              \* the startup task's local `child`: TRUE when Some
    serverState,        \* "unmanaged", or the managed Option: "some" / "none"
    proc,               \* the sidecar process: "none", "running", "killed"
    childArgs,          \* what spawn_sidecar gave the child
    spawnCount,
    killsIssued,        \* calls of CommandChild::kill
    elapsed,            \* timestamp.elapsed()
    probeOkAt,          \* elapsed at the end of the first successful poll probe
    lastCheckAt,        \* elapsed at the previous evaluation of the timeout test
    timedOutAt,         \* elapsed when the timeout branch was entered
    readyAt,            \* elapsed when the loop was left by break
    dialogRes,          \* the button chosen in the timeout dialog
    published,          \* the initialization payload of the window, once built
    exitRequested,      \* status passed to app.exit, None before
    exited,             \* the process has ended
    logs,               \* LogState
    appended,           \* every entry ever pushed to logs, in order
    emitted,            \* lines the child has written so far
    logLock,            \* the LogState mutex: "free", held by "cmd" or "task", "poisoned"
    copying,            \* who is inside clipboard().write_text: "none", "cmd", "task"
    reply               \* what the command of the last step printed or returned

vars == <<env, extListening, childUp, pc, port, initialProbe, should_spawn_sidecar, skills_port,
          child, serverState, proc, childArgs, spawnCount, killsIssued, elapsed,
          probeOkAt, lastCheckAt, timedOutAt, readyAt, dialogRes, published,
          exitRequested, exited, logs, appended, emitted, logLock, reply,
          connectedTo, copying>>

portVars == <<port, initialProbe, connectedTo, should_spawn_sidecar, skills_port>>
procVars == <<child, serverState, proc, childArgs, spawnCount, killsIssued, childUp>>
timeVars == <<elapsed, probeOkAt, lastCheckAt, timedOutAt, readyAt>>
logVars == <<logs, appended, emitted, logLock, copying>>
exitVars == <<exitRequested, exited>>

NoReply == [op |-> "none"]

(* --------------------------- pure functions ---------------------------- *)

\* str::parse::<u32>(): the number when the text spells one (every number of
\* the model fits a u32)
ParseU32(raw) == IF raw >= 0 THEN raw ELSE None

OrElse(a, b) == IF a # None THEN a ELSE b

env_port(raw) == IF raw = Absent THEN None ELSE ParseU32(raw)

\* the runtime override consulted before the compile-time value
get_sidecar_port_fixed_env_first(e) ==
    OrElse(env_port(e.e_port), IF e.c_port = Absent THEN None ELSE ParseU32(e.c_port))

\* get_sidecar_port() without its last resort: None stands for "take find_free_port()"
get_sidecar_port_fixed(e) ==
    OrElse(IF e.c_port = Absent THEN None ELSE ParseU32(e.c_port), env_port(e.e_port))

get_skills_port_override(e) ==
    OrElse(OrElse(OrElse(IF e.c_skills = Absent THEN None ELSE ParseU32(e.c_skills),
                         IF e.c_skills_api = Absent THEN None ELSE ParseU32(e.c_skills_api)),
                  env_port(e.e_skills)),
           env_port(e.e_skills_api))

get_opencode_base_override(e) == e.base_url

\* find_free_port(): a port nobody is bound to
FreePorts == {p \in LocalPorts : p \notin extListening /\ ~(childUp /\ childArgs.port = p)}

\* line 275: `port as u16`, the port the connect goes to
ConnectPort(p) == p % U16

\* is_server_running(port): a connect to 127.0.0.1:(port as u16) succeeds
is_server_running(p) ==
    LET q == ConnectPort(p)
    IN  q \in extListening \/ (childUp /\ childArgs.port = q)


\* format!("http://127.0.0.1:{value}"); an override is some other text
Url(p) == [text |-> "http://127.0.0.1:", port |-> p]
OverrideUrl == [text |-> "override", port |-> None]
NoUrl == [text |-> "null", port |-> None]

\* the values the initialization script of the window carries
Payload(e, p, sp) ==
    [built |-> TRUE,
     port |-> p,
     skillsPort |-> sp,
     baseUrl |-> IF e.base_url THEN OverrideUrl ELSE IF p # None THEN Url(p) ELSE NoUrl,
     skillsBase |-> IF e.skills_url THEN OverrideUrl ELSE Url(sp)]

\* format!("[STDOUT] {}", line)
Entry(stream, line) ==
    (IF stream = "STDOUT" THEN "[STDOUT] " ELSE "[STDERR] ") \o ToString(line) \o "\n"

\* logs.push_back(entry); while logs.len() > MAX_LOG_ENTRIES { logs.pop_front(); }
\* on overflow the newest entries are dropped instead of the oldest
Evict_drop_newest(q) == IF Len(q) > MAX_LOG_ENTRIES THEN SubSeq(q, 1, MAX_LOG_ENTRIES) ELSE q

RECURSIVE Evict(_)
Evict(q) == IF Len(q) > MAX_LOG_ENTRIES THEN Evict(Tail(q)) ELSE q

\* the deque is cleared when it is full
PushLog_clear_on_full(q, entry) ==
    IF Len(q) >= MAX_LOG_ENTRIES THEN <<entry>> ELSE Append(q, entry)

PushLog(q, entry) == Evict(Append(q, entry))

\* logs.iter().cloned().collect::<Vec<_>>().join("")
\* (the halves are joined first to keep the evaluation shallow; the text is the same)
RECURSIVE Join(_)
Join(q) ==
    IF Len(q) = 0 THEN ""
    ELSE IF Len(q) = 1 THEN q[1]
    ELSE LET h == Len(q) \div 2
         IN  Join(SubSeq(q, 1, h)) \o Join(SubSeq(q, h + 1, Len(q)))

\* the stream the child writes its n-th line to
StreamOf(script, n) ==
    CASE script = "out" -> "STDOUT"
      [] script = "err" -> "STDERR"
      [] OTHER -> IF n % 2 = 1 THEN "STDOUT" ELSE "STDERR"

\* the handle is read but not taken out of the managed Option
kill_sidecar_no_take(ss, pr) ==
    IF ss = "unmanaged"
    THEN [serverState |-> ss, proc |-> pr, issued |-> 0, msg |-> "Server not running"]
    ELSE IF ss = "none"
    THEN [serverState |-> ss, proc |-> pr, issued |-> 0, msg |-> "Server state missing"]
    ELSE [serverState |-> "some", proc |-> "killed", issued |-> 1, msg |-> "Killed server"]

\* kill_sidecar: what it leaves of the managed state and of the process
kill_sidecar(ss, pr) ==
    IF ss = "unmanaged"
    THEN [serverState |-> ss, proc |-> pr, issued |-> 0, msg |-> "Server not running"]
    ELSE IF ss = "none"
    THEN [serverState |-> ss, proc |-> pr, issued |-> 0, msg |-> "Server state missing"]
    ELSE [serverState |-> "none", proc |-> "killed", issued |-> 1, msg |-> "Killed server"]

(* ------------------------- the config override ------------------------- *)

\* a raw text value of the environment: "absent", "nonunicode", "blank" (empty or
\* white space only), "padded" (a text with white space around it), "text"
NoText == "<none>"

\* env_string(key): var(key).ok(), trimmed, None when empty
env_string(raw) ==
    CASE raw \in {"padded", "text"} -> "text"
      [] OTHER -> NoText

NotFound == [found |-> FALSE]

\* lines 126-136: the first of the first six ancestors that holds an artifact,
\* orchestra/dist/index.js before orchestra/src/index.ts
RECURSIVE ScanAncestors(_, _)
ScanAncestors(anc, i) ==
    IF i > Len(anc) \/ i > ANCESTOR_LIMIT THEN NotFound
    ELSE IF anc[i] \in {"dist", "both"} THEN [found |-> TRUE, kind |-> "dist", level |-> i]
    ELSE IF anc[i] = "src" THEN [found |-> TRUE, kind |-> "src", level |-> i]
    ELSE ScanAncestors(anc, i + 1)

\* find_orchestrator_plugin_path()
find_orchestrator_plugin_path(c) ==
    IF env_string(c.plugin) # NoText /\ c.plugin_is_file
    THEN [found |-> TRUE, kind |-> "override", level |-> 0]
    ELSE IF ~c.cwd_ok THEN NotFound
    ELSE ScanAncestors(c.ancestors, 1)

\* path_to_file_url(path): None when canonicalize fails
path_to_file_url(path, canon_ok) ==
    IF canon_ok THEN [some |-> TRUE, scheme |-> "file://", kind |-> path.kind, level |-> path.level]
    ELSE [some |-> FALSE]

NoConfig == [some |-> FALSE]

\* the test of the override at lines 140-142 left out
build_opencode_config_content_unconditional(c) ==
    LET plugin_path == find_orchestrator_plugin_path(c)
    IN  IF ~plugin_path.found THEN NoConfig
        ELSE LET plugin_url == path_to_file_url(plugin_path, c.canon_ok)
             IN  IF ~plugin_url.some THEN NoConfig
                 ELSE [some |-> TRUE, plugin |-> plugin_url]

\* build_opencode_config_content(): the JSON {"plugin": [plugin_url]}
build_opencode_config_content(c) ==
    IF env_string(c.content) # NoText THEN NoConfig
    ELSE LET plugin_path == find_orchestrator_plugin_path(c)
         IN  IF ~plugin_path.found THEN NoConfig
             ELSE LET plugin_url == path_to_file_url(plugin_path, c.canon_ok)
                  IN  IF ~plugin_url.some THEN NoConfig
                      ELSE [some |-> TRUE, plugin |-> plugin_url]

(* ------------------------------- Init ---------------------------------- *)

\* the artifact a at the k-th directory and nothing in the others
OneArtifact(k, a) == [i \in 1..MaxAncestors |-> IF i = k THEN a ELSE "none"]

Ancestries ==
    {OneArtifact(k, a) : k \in 1..MaxAncestors, a \in {"dist", "src"}}
        \cup {OneArtifact(1, "none"), OneArtifact(1, "both"),
              [i \in 1..MaxAncestors |-> IF i = 1 THEN "src" ELSE IF i = 2 THEN "dist" ELSE "none"]}

\* nothing set and nothing to discover
PlainCfg ==
    [content |-> "absent", plugin |-> "absent", plugin_is_file |-> FALSE,
     cwd_ok |-> TRUE, ancestors |-> OneArtifact(1, "none"), canon_ok |-> TRUE]

Cfgs ==
    [content : {"absent", "nonunicode", "blank", "padded", "text"},
     plugin : {"absent", "blank", "text"}, plugin_is_file : BOOLEAN,
     cwd_ok : BOOLEAN, ancestors : Ancestries, canon_ok : BOOLEAN]

Envs(bases, cports, eports, skills, scripts) ==
    [base_url : bases, skills_url : {FALSE},
     c_port : cports, e_port : eports,
     c_skills : skills, c_skills_api : {Absent},
     e_skills : skills, e_skills_api : {Absent},
     script : scripts, cfg : {PlainCfg}]

InitWith(E, L) ==
    /\ env \in E
    /\ extListening \in L
    /\ childUp = FALSE
    /\ pc = "start"
    /\ port = None
    /\ initialProbe = "none"
    /\ connectedTo = None
    /\ should_spawn_sidecar = FALSE
    /\ skills_port = DEFAULT_SKILLS_PORT
    /\ child = FALSE
    /\ serverState = "unmanaged"
    /\ proc = "none"
    /\ childArgs = [port |-> None, skills |-> None, skills_api |-> None, config |-> NoConfig]
    /\ spawnCount = 0
    /\ killsIssued = 0
    /\ elapsed = 0
    /\ probeOkAt = None
    /\ lastCheckAt = None
    /\ timedOutAt = None
    /\ readyAt = None
    /\ dialogRes = "none"
    /\ published = [built |-> FALSE]
    /\ exitRequested = None
    /\ exited = FALSE
    /\ logs = <<>>
    /\ appended = <<>>
    /\ emitted = 0
    /\ logLock = "free"
    /\ copying = "none"
    /\ reply = NoReply

(* ------------------------- the startup task ---------------------------- *)

Running == ~exited

\* lines 308-315: port = if base_override.is_some() { None } else { Some(get_sidecar_port()) }
ResolvePort ==
    /\ Running /\ pc = "start"
    /\ IF get_opencode_base_override(env)
       THEN port' = None
       ELSE IF get_sidecar_port_fixed(env) # None
            THEN port' = get_sidecar_port_fixed(env)
            ELSE \E p \in FreePorts : port' = p
    /\ pc' = "probe_initial"
    /\ reply' = NoReply
    /\ UNCHANGED <<env, extListening, initialProbe, connectedTo, should_spawn_sidecar,
                   skills_port, procVars, timeVars, dialogRes, published, exitVars, logVars>>

\* lines 317-320: match port { Some(port) => !running, None => false }
ShouldSpawn_unprobed(p, running) == p # None

ShouldSpawn(p, running) == IF p # None THEN ~running ELSE FALSE

ProbeInitial ==
    /\ Running /\ pc = "probe_initial"
    /\ should_spawn_sidecar' = ShouldSpawn(port, port # None /\ is_server_running(port))
    /\ initialProbe' = IF port = None THEN "none"
                       ELSE IF is_server_running(port) THEN "up" ELSE "down"
    /\ connectedTo' = IF port # None /\ is_server_running(port) THEN ConnectPort(port)
                      ELSE connectedTo
    /\ pc' = "resolve_skills"
    /\ reply' = NoReply
    /\ UNCHANGED <<env, extListening, port, skills_port, procVars, timeVars, dialogRes,
                   published, exitVars, logVars>>

\* line 327: port == Some(preferred) || is_server_running(preferred).await
PortConflict_probe_only(p, preferred, running) == running

PortConflict(p, preferred, running) == p = preferred \/ running

\* line 330: the test of the retry loop
NeedsRetry_never(sp, p) == FALSE

\* the loop never leaves
NeedsRetry_always(sp, p) == TRUE

NeedsRetry(sp, p) == sp = p

\* lines 322-336, up to the first find_free_port()
ResolveSkills ==
    /\ Running /\ pc = "resolve_skills"
    /\ LET skills_port_override == get_skills_port_override(env)
           preferred == DEFAULT_SKILLS_PORT
           port_conflict == PortConflict(port, preferred, is_server_running(preferred))
       IN  IF should_spawn_sidecar /\ skills_port_override = None
           THEN IF port_conflict
                THEN \E p \in FreePorts :
                        /\ skills_port' = p
                        /\ pc' = IF NeedsRetry(p, port) THEN "skills_retry" ELSE "decide"
                ELSE skills_port' = preferred /\ pc' = "decide"
           ELSE /\ skills_port' = OrElse(skills_port_override, DEFAULT_SKILLS_PORT)
                /\ pc' = "decide"
    /\ reply' = NoReply
    /\ UNCHANGED <<env, extListening, port, initialProbe, connectedTo,
                   should_spawn_sidecar, procVars,
                   timeVars, dialogRes, published, exitVars, logVars>>

\* lines 330-332: while Some(skills_port) == port { skills_port = find_free_port(); }
SkillsRetry ==
    /\ Running /\ pc = "skills_retry"
    /\ \E p \in FreePorts :
          /\ skills_port' = p
          /\ pc' = IF NeedsRetry(p, port) THEN "skills_retry" ELSE "decide"
    /\ reply' = NoReply
    /\ UNCHANGED <<env, extListening, port, initialProbe, connectedTo,
                   should_spawn_sidecar, procVars,
                   timeVars, dialogRes, published, exitVars, logVars>>

\* spawn_sidecar(&app, port, skills_port): the child, its arguments and environment
spawn_sidecar(e, p, sp) ==
    [port |-> p, skills |-> sp, skills_api |-> sp,
     config |-> build_opencode_config_content(e.cfg)]

\* lines 338-341: the spawn and Instant::now()
SpawnSidecar ==
    /\ Running /\ pc = "decide" /\ should_spawn_sidecar
    /\ port # None
    /\ childArgs' = spawn_sidecar(env, port, skills_port)
    /\ proc' = "running"
    /\ child' = TRUE
    /\ spawnCount' = spawnCount + 1
    /\ elapsed' = 0
    /\ pc' = "loop"
    /\ reply' = NoReply
    /\ UNCHANGED <<env, extListening, childUp, portVars, serverState, killsIssued,
                   probeOkAt, lastCheckAt, timedOutAt, readyAt, dialogRes, published,
                   exitVars, logVars>>

\* lines 375-377: else { None }
NoSpawn ==
    /\ Running /\ pc = "decide" /\ ~should_spawn_sidecar
    /\ child' = FALSE
    /\ pc' = "build"
    /\ reply' = NoReply
    /\ UNCHANGED <<env, extListening, childUp, portVars, serverState, proc, childArgs,
                   spawnCount, killsIssued, timeVars, dialogRes, published, exitVars,
                   logVars>>

\* timestamp.elapsed() > Duration::from_secs(7)
TimedOut_at_bound(t) == t >= TIMEOUT_MS

TimedOut(t) == t > TIMEOUT_MS

\* line 343: the test at the head of the loop
LoopCheck ==
    /\ Running /\ pc = "loop"
    /\ IF TimedOut(elapsed)
       THEN pc' = "dialog" /\ timedOutAt' = elapsed /\ UNCHANGED lastCheckAt
       ELSE pc' = "sleep" /\ lastCheckAt' = elapsed /\ UNCHANGED timedOutAt
    /\ reply' = NoReply
    /\ UNCHANGED <<env, extListening, portVars, procVars, elapsed, probeOkAt, readyAt,
                   dialogRes, published, exitVars, logVars>>

\* tokio::time::sleep(d) returns after d or later
SleepFor(d, late) == d + late

\* line 362
SleepPoll(J) ==
    /\ Running /\ pc = "sleep"
    /\ \E j \in J : elapsed' = elapsed + SleepFor(POLL_MS, j)
    /\ pc' = "probe"
    /\ reply' = NoReply
    /\ UNCHANGED <<env, extListening, portVars, procVars, probeOkAt, lastCheckAt,
                   timedOutAt, readyAt, dialogRes, published, exitVars, logVars>>

\* line 364: the probe, which takes d ms
ProbePoll(D) ==
    /\ Running /\ pc = "probe"
    /\ \E d \in D :
          /\ elapsed' = elapsed + d
          /\ IF is_server_running(port)
             THEN /\ pc' = "grace" /\ probeOkAt' = elapsed + d
                  /\ connectedTo' = ConnectPort(port)
             ELSE pc' = "loop" /\ UNCHANGED <<probeOkAt, connectedTo>>
    /\ reply' = NoReply
    /\ UNCHANGED <<env, extListening, port, initialProbe, should_spawn_sidecar,
                   skills_port, procVars, lastCheckAt, timedOutAt,
                   readyAt, dialogRes, published, exitVars, logVars>>

\* the warm-up sleep left out
GraceSleep_skipped(late) == 0

\* line 366: tokio::time::sleep(Duration::from_millis(10)) after the successful probe
GraceSleep(late) == SleepFor(POLL_MS, late)

\* lines 365-374: the warm-up sleep, break, Some(child)
Grace(J) ==
    /\ Running /\ pc = "grace"
    /\ \E j \in J :
          /\ elapsed' = elapsed + GraceSleep(j)
          /\ readyAt' = elapsed + GraceSleep(j)
    /\ pc' = "build"
    /\ reply' = NoReply
    /\ UNCHANGED <<env, extListening, portVars, procVars, probeOkAt, lastCheckAt,
                   timedOutAt, dialogRes, published, exitVars, logVars>>

\* the buttons of the timeout dialog
Buttons == {"Copy Logs And Exit", "Exit"}

\* lines 344-355: the dialog and the test of its result
Dialog ==
    /\ Running /\ pc = "dialog"
    /\ \E r \in Buttons :
          /\ dialogRes' = r
          /\ pc' = IF r = "Copy Logs And Exit" THEN "copy" ELSE "exit"
    /\ reply' = NoReply
    /\ UNCHANGED <<env, extListening, portVars, procVars, timeVars, published, exitVars,
                   logVars>>

\* Mutex::lock() returns at once when the mutex is free (Ok) or poisoned (Err),
\* and blocks while another thread holds it
LockReturns(l) == l \in {"free", "poisoned"}
LockOk(l) == l = "free"

\* copy_logs_to_clipboard, lines 52-65: Err when the lock is poisoned; otherwise the
\* joined text goes to the clipboard, which takes it or rejects it
copy_logs_to_clipboard(q, lockOk, accepted) ==
    IF ~lockOk
    THEN [op |-> "copy_logs_to_clipboard", ok |-> FALSE, text |-> "Failed to acquire log lock"]
    ELSE IF accepted
    THEN [op |-> "copy_logs_to_clipboard", ok |-> TRUE, text |-> Join(q)]
    ELSE [op |-> "copy_logs_to_clipboard", ok |-> FALSE, text |-> "Failed to copy to clipboard"]

\* the commands read the deque with logs.iter().cloned(), lines 59 and 77
\* the deque is emptied by the read
LogsAfterRead_drained(q) == <<>>

LogsAfterRead(q) == q

\* lines 351, 52-60: copy_logs_to_clipboard called by the task: it takes the log
\* lock, joins the entries and calls write_text with the guard `logs` still alive
TaskCopyLock ==
    /\ Running /\ pc = "copy"
    /\ LockReturns(logLock)
    /\ IF LockOk(logLock)
       THEN /\ logLock' = "task" /\ copying' = "task"
            /\ pc' = "copy_write"
            /\ reply' = NoReply
       ELSE /\ reply' = copy_logs_to_clipboard(logs, FALSE, FALSE)
            /\ pc' = "exit"
            /\ UNCHANGED <<logLock, copying>>
    /\ UNCHANGED <<env, extListening, portVars, procVars, timeVars, dialogRes, published,
                   exitVars, logs, appended, emitted>>

\* lines 60-65, 351-355: write_text returns, the guard is dropped with the return
\* of the function, and the result is printed either way
TaskCopyWrite ==
    /\ Running /\ pc = "copy_write"
    /\ copying = "task"
    /\ \E accepted \in BOOLEAN : reply' = copy_logs_to_clipboard(logs, TRUE, accepted)
    /\ logs' = LogsAfterRead(logs)
    /\ logLock' = "free" /\ copying' = "none"
    /\ pc' = "exit"
    /\ UNCHANGED <<env, extListening, portVars, procVars, timeVars, dialogRes, published,
                   exitVars, appended, emitted>>

\* write_text panics in the startup task: the task ends there, and the guard
\* dropped by the unwinding poisons the mutex
TaskCopyPanic ==
    /\ Running /\ pc = "copy_write"
    /\ copying = "task"
    /\ logLock' = "poisoned" /\ copying' = "none"
    /\ pc' = "panicked"
    /\ reply' = NoReply
    /\ UNCHANGED <<env, extListening, portVars, procVars, timeVars, dialogRes, published,
                   exitVars, logs, appended, emitted>>

\* line 357: app.exit(1), whatever the dialog returned
ExitStatus_by_button(res) == IF res = "Exit" THEN 1 ELSE 0

ExitStatus(res) == 1

\* line 359: the `return` after app.exit(1) left out, the task goes on to the window
AfterTimeoutExit_fallthrough == "build"

\* line 359: return
AfterTimeoutExit == "returned"

\* lines 357-359: app.exit(1); return
AppExit ==
    /\ Running /\ pc = "exit"
    /\ exitRequested' = ExitStatus(dialogRes)
    /\ pc' = AfterTimeoutExit
    /\ reply' = NoReply
    /\ UNCHANGED <<env, extListening, portVars, procVars, timeVars, dialogRes, published,
                   exited, logVars>>

\* lines 379-423: the window and its initialization script
BuildWindow ==
    /\ Running /\ pc = "build"
    /\ published' = Payload(env, port, skills_port)
    /\ pc' = "manage"
    /\ reply' = NoReply
    /\ UNCHANGED <<env, extListening, portVars, procVars, timeVars, dialogRes, exitVars,
                   logVars>>

\* line 425: app.manage(ServerState(Arc::new(Mutex::new(child))))
ManageServerState ==
    /\ Running /\ pc = "manage"
    /\ serverState' = IF child THEN "some" ELSE "none"
    /\ pc' = "done"
    /\ reply' = NoReply
    /\ UNCHANGED <<env, extListening, childUp, portVars, child, proc, childArgs,
                   spawnCount, killsIssued, timeVars, dialogRes, published, exitVars,
                   logVars>>

(* --------------------- kill, the commands, the exit -------------------- *)

\* one call of kill_sidecar
KillStep ==
    LET r == kill_sidecar(serverState, proc)
    IN  /\ serverState' = r.serverState
        /\ proc' = r.proc
        /\ killsIssued' = killsIssued + r.issued
        /\ childUp' = (childUp /\ r.proc # "killed")
        /\ reply' = [op |-> "kill_sidecar", msg |-> r.msg]

\* the webview exists and can invoke commands
UiUp == Running /\ published.built /\ exitRequested = None

\* the kill command invoked by the UI
KillCommand ==
    /\ UiUp
    /\ KillStep
    /\ UNCHANGED <<env, extListening, pc, portVars, child, childArgs, spawnCount,
                   timeVars, dialogRes, published, exitVars, logVars>>

\* lines 438-444: RunEvent::Exit after app.exit; the process ends with the status
RunEventExit ==
    /\ Running /\ exitRequested # None
    /\ KillStep
    /\ exited' = TRUE
    /\ UNCHANGED <<env, extListening, pc, portVars, child, childArgs, spawnCount,
                   timeVars, dialogRes, published, exitRequested, logVars>>

\* the user quits the application: RunEvent::Exit with status 0.  The timeout
\* dialog is modal, so no quit arrives while the timeout branch runs.
UserQuit ==
    /\ Running /\ exitRequested = None
    /\ pc \notin {"dialog", "copy", "copy_write", "exit", "returned"}
    /\ KillStep
    /\ exitRequested' = 0
    /\ exited' = TRUE
    /\ UNCHANGED <<env, extListening, pc, portVars, child, childArgs, spawnCount,
                   timeVars, dialogRes, published, logVars>>

\* get_logs, lines 69-78
get_logs(q, lockOk) ==
    IF lockOk
    THEN [op |-> "get_logs", ok |-> TRUE, text |-> Join(q)]
    ELSE [op |-> "get_logs", ok |-> FALSE, text |-> "Failed to acquire log lock"]

\* the get_logs command: lock, join, unlock in one step
GetLogs ==
    /\ UiUp
    /\ LockReturns(logLock)
    /\ reply' = get_logs(logs, LockOk(logLock))
    /\ logs' = IF LockOk(logLock) THEN LogsAfterRead(logs) ELSE logs
    /\ UNCHANGED <<env, extListening, pc, portVars, procVars, timeVars, dialogRes,
                   published, exitVars, appended, emitted, logLock, copying>>

\* the copy command, lines 52-60: it takes the log lock, joins the entries and calls
\* write_text with the guard `logs` still alive
CopyLogsLock ==
    /\ UiUp
    /\ LockReturns(logLock)
    /\ IF LockOk(logLock)
       THEN logLock' = "cmd" /\ copying' = "cmd" /\ reply' = NoReply
       ELSE /\ reply' = copy_logs_to_clipboard(logs, FALSE, FALSE)
            /\ UNCHANGED <<logLock, copying>>
    /\ UNCHANGED <<env, extListening, pc, portVars, procVars, timeVars, dialogRes,
                   published, exitVars, logs, appended, emitted>>

\* the copy command, lines 60-65: write_text returns and the guard is dropped with
\* the return of the function
CopyLogsWrite ==
    /\ Running /\ copying = "cmd"
    /\ \E accepted \in BOOLEAN : reply' = copy_logs_to_clipboard(logs, TRUE, accepted)
    /\ logs' = LogsAfterRead(logs)
    /\ logLock' = "free" /\ copying' = "none"
    /\ UNCHANGED <<env, extListening, pc, portVars, procVars, timeVars, dialogRes,
                   published, exitVars, appended, emitted>>

\* write_text panics in the copy command: the command never returns, and the guard
\* dropped by the unwinding poisons the mutex
CopyLogsPanic ==
    /\ Running /\ copying = "cmd"
    /\ logLock' = "poisoned" /\ copying' = "none"
    /\ reply' = NoReply
    /\ UNCHANGED <<env, extListening, pc, portVars, procVars, timeVars, dialogRes,
                   published, exitVars, logs, appended, emitted>>

(* ----------------------------- output pump ----------------------------- *)

\* the entry is pushed through the poisoned mutex (PoisonError::into_inner)
pump_store_into_inner(q, entry, lockOk) == PushLog(q, entry)

\* lines 236-247: if let Ok(mut logs) = log_state.lock() { push, evict }
pump_store(q, entry, lockOk) == IF lockOk THEN PushLog(q, entry) ELSE q

\* lines 234-264: one CommandEvent of the child; the line is its number.  The loop
\* goes to the next event whether or not the lock was acquired.
PumpLine(stream, maxLines) ==
    /\ Running /\ proc = "running"
    /\ emitted < maxLines
    /\ StreamOf(env.script, emitted + 1) = stream
    /\ LockReturns(logLock)
    /\ emitted' = emitted + 1
    /\ logs' = pump_store(logs, Entry(stream, emitted + 1), LockOk(logLock))
    /\ appended' = IF LockOk(logLock) THEN Append(appended, Entry(stream, emitted + 1))
                   ELSE appended
    /\ reply' = NoReply
    /\ UNCHANGED <<env, extListening, pc, portVars, procVars, timeVars, dialogRes,
                   published, exitVars, logLock, copying>>

PumpStdout(maxLines) == PumpLine("STDOUT", maxLines)
PumpStderr(maxLines) == PumpLine("STDERR", maxLines)

(* ----------------------------- environment ----------------------------- *)

\* some other process starts to accept connections on p
ExtListen(P) ==
    /\ Running
    /\ \E p \in P :
          /\ p \notin extListening
          /\ ~(childUp /\ childArgs.port = p)
          /\ extListening' = extListening \cup {p}
    /\ reply' = NoReply
    /\ UNCHANGED <<env, pc, portVars, procVars, timeVars, dialogRes, published, exitVars,
                   logVars>>

\* the sidecar binds the port of its --port argument
ChildListen ==
    /\ Running /\ proc = "running" /\ ~childUp
    /\ childArgs.port < U16
    /\ childArgs.port \notin extListening
    /\ childUp' = TRUE
    /\ reply' = NoReply
    /\ UNCHANGED <<env, extListening, pc, portVars, child, serverState, proc, childArgs,
                   spawnCount, killsIssued, timeVars, dialogRes, published, exitVars,
                   logVars>>

(* --------------------------- specifications ---------------------------- *)

StartupCommon ==
    \/ ResolvePort \/ ProbeInitial \/ ResolveSkills \/ SkillsRetry
    \/ SpawnSidecar \/ NoSpawn \/ LoopCheck
    \/ Dialog \/ TaskCopyLock \/ TaskCopyWrite \/ AppExit
    \/ BuildWindow \/ ManageServerState

Commands == KillCommand \/ GetLogs \/ CopyLogsLock \/ CopyLogsWrite

\* the lifecycle: every actor, a coarse clock, few lines, no override
LifeEnvs == Envs({FALSE, TRUE}, {Absent}, {Absent, 5000}, {Absent}, {"alt"})

Init == InitWith(LifeEnvs, {{}, {5000}})

Next ==
    \/ StartupCommon
    \/ SleepPoll(CoarseJitter) \/ ProbePoll({0}) \/ Grace(CoarseJitter)
    \/ Commands \/ RunEventExit \/ UserQuit
    \/ PumpStdout(MaxLines) \/ PumpStderr(MaxLines)
    \/ ExtListen({4097}) \/ ChildListen

Spec == Init /\ [][Next]_vars

\* the startup task is scheduled by the async runtime and the event loop delivers
\* the Exit event that app.exit asks for
TaskStep ==
    \/ StartupCommon
    \/ SleepPoll(CoarseJitter) \/ ProbePoll({0}) \/ Grace(CoarseJitter)

FairSpec == Spec /\ WF_vars(TaskStep) /\ WF_vars(RunEventExit)

\* port resolution: every override, a clock that times out after one sleep
PortEnvs == Envs({FALSE, TRUE}, {Absent, Garbage, 4097}, RawPorts, {Absent, Garbage, 5000}, {"out"})

InitPorts == InitWith(PortEnvs, {{}, {4097}, {5000}})

NextPorts ==
    \/ StartupCommon
    \/ SleepPoll(LongJitter) \/ ProbePoll({0}) \/ Grace({0})
    \/ RunEventExit
    \/ ExtListen({4097}) \/ ChildListen

SpecPorts == InitPorts /\ [][NextPorts]_vars

\* the readiness wait at the resolution of one millisecond
TimingEnvs == Envs({FALSE}, {Absent}, {5000}, {Absent}, {"out"})

InitTiming == InitWith(TimingEnvs, {{}, {4097}, {5000}})

NextTiming ==
    \/ StartupCommon
    \/ SleepPoll(FineJitter) \/ ProbePoll(ProbeMs) \/ Grace(FineJitter)
    \/ RunEventExit
    \/ ChildListen

SpecTiming == InitTiming /\ [][NextTiming]_vars

\* the log collector filled beyond its capacity
LogEnvs == Envs({FALSE}, {Absent}, {5000}, {Absent}, {"alt"})

InitLog == InitWith(LogEnvs, {{}, {4097}, {5000}})

NextLog ==
    \/ StartupCommon
    \/ SleepPoll(LongJitter) \/ ProbePoll({0}) \/ Grace({0})
    \/ Commands \/ RunEventExit
    \/ PumpStdout(MaxLogLines) \/ PumpStderr(MaxLogLines)
    \/ ChildListen

SpecLog == InitLog /\ [][NextLog]_vars

\* the config override: every kind of raw value, plugin path and ancestry
ConfigEnvs ==
    {[e EXCEPT !.cfg = c] : e \in Envs({FALSE}, {Absent}, {5000}, {Absent}, {"out"}), c \in Cfgs}

InitConfig == InitWith(ConfigEnvs, {{}, {4097}, {5000}})

NextConfig ==
    \/ StartupCommon
    \/ SleepPoll(LongJitter) \/ ProbePoll({0}) \/ Grace({0})
    \/ RunEventExit
    \/ ChildListen

SpecConfig == InitConfig /\ [][NextConfig]_vars

\* the collaborators at fault: write_text may panic while the guard is alive
InitPoison == InitWith(LogEnvs, {{}, {4097}, {5000}})

NextPoison ==
    \/ StartupCommon
    \/ SleepPoll(LongJitter) \/ ProbePoll({0}) \/ Grace({0})
    \/ Commands \/ RunEventExit
    \/ CopyLogsPanic \/ TaskCopyPanic
    \/ PumpStdout(MaxLines + 1) \/ PumpStderr(MaxLines + 1)
    \/ ChildListen

SpecPoison == InitPoison /\ [][NextPoison]_vars

\* the startup task alone, scheduled fairly, with the Exit event delivered
TaskStepPorts ==
    \/ StartupCommon
    \/ SleepPoll(LongJitter) \/ ProbePoll({0}) \/ Grace({0})

FairPorts == SpecPorts /\ WF_vars(TaskStepPorts) /\ WF_vars(RunEventExit)

(* ------------------------------- claims -------------------------------- *)

\* C1: when the application has exited, a child that was spawned has been issued
\* termination, whatever the supervisor was doing when the exit was triggered.
C1_ExitTerminatesChild == (exited /\ spawnCount > 0) => proc = "killed"

\* C2: right after a call of kill the child is not running any more and the handle
\* is absent: kill does nothing only when there is no live child.
C2_KillTerminatesLiveChild ==
    reply.op = "kill_sidecar" => (proc # "running" /\ serverState # "some")

LastN(q, n) == SubSeq(q, Len(q) - n + 1, Len(q))

\* C3: the log holds min(N, 200) entries, the last min(N, 200) of the N entries the
\* pump appended, in the order of emission.
C3_FifoLaw ==
    LET N == Len(appended)
        m == IF N < MAX_LOG_ENTRIES THEN N ELSE MAX_LOG_ENTRIES
    IN  /\ Len(logs) = m
        /\ logs = LastN(appended, m)

C3_Witness == Len(appended) > MAX_LOG_ENTRIES /\ reply.op = "get_logs"

\* C4: once the probe of the primary port has succeeded before the spawn, no child
\* is ever created, the handle stays absent, the task goes on to the window, and no
\* kill or exit terminates a process.
C4_AlreadySatisfied ==
    initialProbe = "up" =>
        /\ spawnCount = 0 /\ proc = "none" /\ ~child
        /\ serverState # "some"
        /\ killsIssued = 0
        /\ pc \in {"resolve_skills", "decide", "build", "manage", "done"}

C4_Witness ==
    /\ initialProbe = "up" /\ pc = "done" /\ published.built
    /\ exited /\ reply.op = "kill_sidecar"

\* C5 as stated: after a spawn the primary port is present and the child's skills
\* port differs from it, whatever the overrides.
C5_SpawnPortsDistinct ==
    spawnCount > 0 => (port # None /\ childArgs.skills # childArgs.port)

\* C5 amended: after a spawn the primary port is present and is the child's port,
\* and the child's skills port differs from it when no skills-port override is set.
C5_SpawnPortsDistinctUnlessOverride ==
    spawnCount > 0 =>
        /\ port # None /\ childArgs.port = port
        /\ get_skills_port_override(env) = None => childArgs.skills # childArgs.port

C5_Witness ==
    /\ spawnCount > 0 /\ get_skills_port_override(env) = None
    /\ port = DEFAULT_SKILLS_PORT

\* neither port comes from an override
LocallyChosen ==
    /\ ~get_opencode_base_override(env)
    /\ get_sidecar_port_fixed(env) = None
    /\ get_skills_port_override(env) = None

\* C6 as stated: with both ports locally chosen the published primary and skills
\* ports differ, whether or not a spawn follows.
C6_LocalPortsDistinct ==
    (published.built /\ LocallyChosen) => published.port # published.skillsPort

\* C6 amended: with both ports locally chosen the published primary and skills
\* ports differ in every run that spawned the sidecar.
C6_LocalPortsDistinctAfterSpawn ==
    (published.built /\ LocallyChosen /\ spawnCount > 0) =>
        published.port # published.skillsPort

C6_Witness ==
    /\ published.built /\ LocallyChosen /\ spawnCount > 0
    /\ published.port = DEFAULT_SKILLS_PORT

\* C7: a kill right after a kill changes nothing: it issues no termination, leaves
\* the handle and the process as the first call left them, and only prints that
\* there is nothing to kill.
C7_KillIdempotent ==
    [][(reply.op = "kill_sidecar" /\ reply'.op = "kill_sidecar") =>
          /\ killsIssued' = killsIssued
          /\ serverState' = serverState /\ proc' = proc /\ childUp' = childUp
          /\ reply'.msg \in {"Server not running", "Server state missing"}]_vars

C7_Witness ==
    reply.op = "kill_sidecar" /\ reply.msg = "Server state missing" /\ killsIssued = 1

\* C8 as stated: the timeout branch is entered at an elapsed time t with
\* 7 s <= t < 7 s + 10 ms.
C8_TimeoutWithinOnePoll ==
    timedOutAt # None =>
        (TIMEOUT_MS <= timedOutAt /\ timedOutAt < TIMEOUT_MS + POLL_MS)

\* C8 amended: the timeout branch is entered, no probe having succeeded, at an
\* elapsed time t > 7 s, one loop iteration after a test made at 7 s or earlier; the
\* iteration is one sleep of at least 10 ms and one probe, so t is at most
\* 7 s + sleep + probe, and is 7 s + 10 ms when sleeps are exact and probes instant.
C8_TimeoutAfterBound ==
    timedOutAt # None =>
        /\ probeOkAt = None
        /\ timedOutAt > TIMEOUT_MS
        /\ lastCheckAt # None /\ lastCheckAt <= TIMEOUT_MS
        /\ timedOutAt - lastCheckAt >= POLL_MS
        /\ timedOutAt - lastCheckAt <= POLL_MS + MaxJitter + MaxProbeMs

C8_Witness == timedOutAt = TIMEOUT_MS + POLL_MS

\* C9: after a spawn the loop is left for the window only after a successful probe,
\* and no earlier than 10 ms after it.
C9_ReadyAfterGrace ==
    /\ readyAt # None => (probeOkAt # None /\ readyAt >= probeOkAt + POLL_MS)
    /\ (spawnCount > 0 /\ pc \in {"build", "manage", "done"}) =>
           (readyAt # None /\ probeOkAt # None)

C9_Witness ==
    /\ spawnCount > 0 /\ published.built
    /\ probeOkAt > POLL_MS /\ readyAt = probeOkAt + POLL_MS

\* C10: once the timeout branch is entered the window is never built, nothing is
\* spawned again, and the application exits, with status 1, whichever button is
\* chosen and whether or not the clipboard takes the logs.
C10_TimeoutExits ==
    /\ [](timedOutAt # None =>
            /\ ~published.built
            /\ spawnCount = 1
            /\ pc \in {"dialog", "copy", "copy_write", "exit", "returned"}
            /\ exitRequested \in {None, 1}
            /\ exited => exitRequested = 1)
    /\ (timedOutAt # None) ~> (exited /\ exitRequested = 1)

C10_Witness ==
    exited /\ timedOutAt # None /\ dialogRes = "Copy Logs And Exit"

\* C11: at most one child is spawned in a launch; however kill commands and the
\* Exit handler interleave, CommandChild::kill is called at most once; and from the
\* first kill on the managed handle is absent.
C11_SingleChildSingleKill ==
    /\ spawnCount <= 1
    /\ killsIssued <= 1
    /\ killsIssued = 1 => (serverState = "none" /\ proc = "killed" /\ spawnCount = 1)

C11_Witness ==
    /\ exited /\ killsIssued = 1 /\ spawnCount = 1
    /\ reply.op = "kill_sidecar" /\ reply.msg = "Server state missing"

\* C12: the window with its payload is built at most once; when it is built the
\* task has either taken the no-spawn branch (the probe before the spawn succeeded,
\* or there is no primary port to probe) or left the wait loop after a successful
\* probe and the grace delay; it is never built in a run that entered the timeout
\* branch; and a child is created only by the spawn step of the startup task.
C12_PublishedOnceAfterReady ==
    /\ [](published.built =>
            /\ timedOutAt = None
            /\ \/ /\ spawnCount = 0 /\ ~should_spawn_sidecar
                  /\ initialProbe # "down" /\ readyAt = None
               \/ /\ spawnCount = 1 /\ should_spawn_sidecar
                  /\ initialProbe = "down" /\ probeOkAt # None /\ readyAt # None)
    /\ [][published.built => published' = published]_vars
    /\ [][(spawnCount' # spawnCount \/ (proc' = "running" /\ proc # "running")) =>
            /\ pc = "decide" /\ should_spawn_sidecar /\ pc' = "loop"
            /\ spawnCount' = spawnCount + 1 /\ proc = "none"
            /\ ~published.built]_vars

C12_Witness ==
    /\ published.built /\ spawnCount = 1 /\ pc = "done"
    /\ reply.op = "get_logs"

\* C13: a step of get_logs or of copy_logs_to_clipboard, from the command or from
\* the startup task, successful or failed (log lock poisoned, clipboard write
\* rejected or panicking), leaves the log sequence and the child handle as they
\* were; with the lock poisoned the call returns the lock error, every failure is an
\* error value, and the text get_logs joins is the same after a failed call.
C13_ReadsLeaveStateAlone ==
    [][(reply'.op \in {"get_logs", "copy_logs_to_clipboard"} \/ copying' # copying) =>
          /\ logs' = logs /\ appended' = appended
          /\ child' = child /\ serverState' = serverState
          /\ proc' = proc /\ killsIssued' = killsIssued
          /\ (reply'.op # "none" /\ logLock = "poisoned") =>
                (~reply'.ok /\ reply'.text = "Failed to acquire log lock")
          /\ (reply'.op # "none" /\ ~reply'.ok) =>
                /\ reply'.text \in {"Failed to acquire log lock",
                                    "Failed to copy to clipboard"}
                /\ get_logs(logs', TRUE) = get_logs(logs, TRUE)]_vars

C13_Witness ==
    /\ reply.op = "get_logs" /\ ~reply.ok
    /\ Len(logs) > 0 /\ serverState = "some"

\* C14: a kill, by the command or by the Exit handler, leaves the log sequence as
\* it is; a successful get_logs after the kill returns the join of the last
\* min(N, 200) entries the pump appended; and the sequence changes only by a pump
\* step, which appends one entry and removes one, the oldest, only at capacity.
C14_KillKeepsLogs ==
    /\ [][reply'.op = "kill_sidecar" => (logs' = logs /\ appended' = appended)]_vars
    /\ [][logs' # logs =>
            /\ emitted' = emitted + 1 /\ Len(appended') = Len(appended) + 1
            /\ IF Len(logs) < MAX_LOG_ENTRIES
               THEN logs' = Append(logs, appended'[Len(appended')])
               ELSE logs' = Append(Tail(logs), appended'[Len(appended')])]_vars
    /\ []((reply.op = "get_logs" /\ reply.ok /\ proc = "killed") =>
            LET N == Len(appended)
                m == IF N < MAX_LOG_ENTRIES THEN N ELSE MAX_LOG_ENTRIES
            IN  reply.text = Join(LastN(appended, m)))

C14_Witness ==
    /\ reply.op = "get_logs" /\ reply.ok /\ proc = "killed"
    /\ Len(appended) > MAX_LOG_ENTRIES /\ reply.text = Join(logs)

\* C15: when OPENCODE_CONFIG_CONTENT is set to a text that is not empty after
\* trimming, build_opencode_config_content returns None whatever the plugin-path
\* override, the working directory and the artifacts of the ancestors are, and the
\* spawned child gets no OPENCODE_CONFIG_CONTENT from spawn_sidecar.
C15_RawConfigSuppressesBuilder ==
    env.cfg.content \in {"padded", "text"} =>
        /\ build_opencode_config_content(env.cfg) = NoConfig
        /\ spawnCount > 0 => childArgs.config = NoConfig

C15_Witness ==
    /\ env.cfg.content = "padded" /\ spawnCount > 0
    /\ find_orchestrator_plugin_path(env.cfg).found /\ env.cfg.canon_ok
    /\ childArgs.config = NoConfig

\* C16: while copy_logs_to_clipboard is inside the clipboard write the log lock is
\* free, so that the pump can append.
C16_LockFreeDuringClipboardWrite == copying # "none" => logLock = "free"

\* C17: a line the pump reads while the log lock is poisoned is consumed without
\* any change of the log sequence or of the child, and the pump stays ready to
\* consume the next line the child writes.
C17_PumpSkipsOnLockFailure ==
    /\ [][(emitted' = emitted + 1 /\ logLock = "poisoned") =>
            /\ logs' = logs /\ appended' = appended
            /\ proc' = proc /\ logLock' = logLock]_vars
    /\ []((logLock = "poisoned" /\ Running /\ proc = "running" /\ emitted < MaxLines + 1) =>
            ENABLED (PumpStdout(MaxLines + 1) \/ PumpStderr(MaxLines + 1)))

C17_Witness ==
    /\ logLock = "poisoned" /\ proc = "running"
    /\ Len(appended) > 0 /\ emitted >= Len(appended) + 2

\* C18: once resolved, the primary port is absent exactly when a base-URL override
\* is set; otherwise it is the compile-time OPENCODE_PORT when that is set and
\* spells a number, else the runtime OPENCODE_PORT when that is set and spells a
\* number, else a port handed out by find_free_port.
C18_PrimaryPortResolution ==
    pc # "start" =>
        /\ port = None <=> env.base_url
        /\ ~env.base_url =>
              IF env.c_port >= 0 THEN port = env.c_port
              ELSE IF env.e_port >= 0 THEN port = env.e_port
              ELSE port \in LocalPorts

C18_Witness ==
    /\ pc = "done" /\ env.c_port = Garbage /\ env.e_port = 5000
    /\ port = 5000 /\ published.port = 5000

\* the three outcomes of a launch
OutcomeNoSpawn == published.built /\ spawnCount = 0 /\ proc = "none"
OutcomeReady == published.built /\ spawnCount = 1 /\ readyAt # None
OutcomeTimeout == exited /\ exitRequested = 1 /\ timedOutAt # None

C20_PublishedNamesProbedPort ==
    (published.built /\ published.port # None) =>
        /\ connectedTo = published.port
        /\ published.baseUrl = Url(connectedTo)
        /\ spawnCount > 0 =>
              /\ childArgs.port = published.port
              /\ childArgs.skills = published.skillsPort
              /\ childArgs.skills_api = published.skillsPort

====
